---- MODULE Spec2Model ----
(***************************************************************************)
(* Model of the license lifecycle management commands of license-manager:  *)
(*   send_license_expiration_reminders                                     *)
(*   send_subscription_plan_expiration_emails                              *)
(* Both commands select ACTIVATED licenses of the requested enterprise     *)
(* customers whose plan expires inside a calendar window, send one Braze   *)
(* campaign message per license and stamp a per-command sent-date marker   *)
(* on the license.                                                         *)
(*                                                                         *)
(* Time is counted in ticks; a calendar day has TicksPerDay ticks, tick 0  *)
(* of a day being 00:00.  The clock may advance between any two steps of   *)
(* a run.  Runs do not overlap.  The two commands write different columns  *)
(* and read nothing the other writes, so a behaviour runs one of them, any *)
(* number of times.  The database, the enterprise API and Braze are the    *)
(* environment: a database write succeeds, an enterprise API call and a    *)
(* Braze send succeed or raise.                                            *)
(***************************************************************************)
EXTENDS Integers, Sequences, FiniteSets, TLC

\* ------------------------------------------------------------------ bounds
TicksPerDay == 2
MaxRuns == 2
MaxLen == 4
MaxPlans == 2
MaxClients == 2

\* --------------------------------------------------------------- constants
\* A nullable DateTimeField holds Null or one timestamp.
Null == <<>>
DateTime(t) == <<t>>

UNASSIGNED == "unassigned"
ASSIGNED == "assigned"
ACTIVATED == "activated"
REVOKED == "revoked"
Statuses == {UNASSIGNED, ASSIGNED, ACTIVATED, REVOKED}

REMINDERS == "send_license_expiration_reminders"
EXPIRATION_EMAILS == "send_subscription_plan_expiration_emails"
Commands == {REMINDERS, EXPIRATION_EMAILS}

\* Two tenants; c1 owns plan p1 with licenses l1, l2, c2 owns plan p2 with l3.
Customers == {"c1", "c2"}
Plans == {"p1", "p2"}
Licenses == {"l1", "l2", "l3"}

subscription_plan(l) == IF l = "l3" THEN "p2" ELSE "p1"
enterprise_customer_uuid(p) == IF p = "p1" THEN "c1" ELSE "c2"

\* The argument lists (already split into UUIDs) the command is run with.
UuidLists == {<<"c1">>, <<"c2", "c1">>, <<"c1", "c1">>}

\* The text of --enterprise-customer-uuid is a string over Chars: "1" and
\* "2" each stand for the whole text of the UUID of c1 and of c2, "x" for a
\* character no UUID contains, "," and " " are the separators.
Chars == {"1", "2", "x", ",", " "}
UuidText(c) == IF c = "c1" THEN "1" ELSE "2"
CustomerOfText(ch) == IF ch = "1" THEN "c1" ELSE "c2"
\* The UUIDs of a list, joined by commas.
RECURSIVE CommaSeparated(_)
CommaSeparated(uuids) ==
    IF Len(uuids) = 0 THEN <<>>
    ELSE IF Len(uuids) = 1 THEN <<UuidText(uuids[1])>>
    ELSE <<UuidText(uuids[1]), ",">> \o CommaSeparated(Tail(uuids))
\* The argument texts the runs of Spec are given: the lists above. SpecParse
\* gives a run every text, the rejected ones too.
ArgStrings == {CommaSeparated(u) : u \in UuidLists}
\* Every text of at most MaxLen characters.
AllStrings == UNION {[1 .. n -> Chars] : n \in 0 .. MaxLen}

\* The values of --days-before-expiration / --days-since-expiration.
DaysChoices == {1, 2}
MaxDays == CHOOSE n \in DaysChoices : \A m \in DaysChoices : m <= n

\* The clock starts at 00:00 of StartDay and runs for a day and a tick, so a
\* run can cross midnight and go on after it.  Plans expire at the first or the last tick of a
\* day from MaxDays + 1 days before StartDay to MaxDays + 1 days after it.
StartDay == MaxDays + 1
StartNow == StartDay * TicksPerDay
MaxNow == StartNow + TicksPerDay + 1
ExpirationDays == 0 .. (StartDay + MaxDays + 1)
ExpirationDates ==
    {d * TicksPerDay : d \in ExpirationDays} \cup
    {d * TicksPerDay + (TicksPerDay - 1) : d \in ExpirationDays}

\* -------------------------------------------------------------- date maths
\* datetime.replace(hour=0, minute=0, second=0, microsecond=0)
Midnight(t) == t - (t % TicksPerDay)
\* datetime.date(), as a day number
DateOf(t) == t \div TicksPerDay
\* timedelta(days=n)
timedelta(n) == n * TicksPerDay
\* timedelta.days of the difference a - b of two datetimes (floor division)
DeltaDays(a, b) == (a - b) \div TicksPerDay

VARIABLES
    now,                                          \* localized_utcnow()
    status,                                       \* License.status
    expiration_date,                              \* SubscriptionPlan.expiration_date
    expiration_reminder_sent_date,                \* License marker of REMINDERS
    subscription_plan_expiration_email_sent_date, \* License marker of EXPIRATION_EMAILS
    pc,                   \* where the running command is
    runs,                 \* number of command runs started
    command,              \* which command runs
    uuids_string,         \* options['enterprise_customer_uuid']
    enterprise_customer_uuids,  \* parsed --enterprise-customer-uuid
    days,                 \* --days-before-expiration / --days-since-expiration
    dry_run,              \* --dry-run
    braze_campaign_id,    \* TRUE iff the command's campaign setting is non-empty
    idx,                  \* position of the handle() loop in enterprise_customer_uuids
    expiration_window_start,
    expiration_window_end,
    licenses,             \* rows of the evaluated queryset not yet iterated
    success_count,
    failure_count,
    total_success_count,
    total_failure_count,
    enterprise_level_failures,
    result,               \* how handle() ended
    \* what the environment saw of the command
    emails_sent,          \* campaign messages delivered, per license, over all runs
    last_send,            \* the latest call of the send function in this run
    attempted,            \* this run: licenses the send function was called for
    succeeded,            \* this run: licenses whose campaign message was delivered
    attempt_count,        \* this run: calls of the send function
    failed_sends,         \* this run: calls of the send function that raised
    queries,              \* this run: customers a license query was built for
    queried,              \* this run: those customers, in the order of the queries
    selected_count,       \* this run: rows handed to the send loops
    api_calls,            \* this run: enterprise API calls
    failed_customers,     \* this run: enterprise API calls that raised
    found,                \* this run: licenses counted by 'Found N licenses'
    query_date,           \* the calendar day on which the current query was built
    start_marker,         \* the command's marker column when the run started
    \* retire_old_licenses: the License columns it reads and writes
    user_email,
    revoked_date,
    assigned_date,
    \* retire_old_licenses: the locals of handle()
    ready_for_retirement_date,          \* a calendar day
    expired_licenses_for_retirement,    \* the evaluated querysets
    revoked_licenses_for_retirement,
    assigned_licenses_for_retirement,
    pending,              \* rows of the running loop not yet iterated
    started,              \* the instant the run started
    before,               \* the License columns when the run started
    \* the provisioning-admin subscription-plan endpoints
    is_active,            \* SubscriptionPlan.is_active
    title,                \* SubscriptionPlan.title
    response,             \* the latest request and its response
    subscription_plans,   \* the rows created through the create endpoint, in order
    settings,             \* django.conf.settings: the three Braze settings
    raised,               \* what the latest BrazeApiClient() raised, Null if nothing
    init_calls,           \* the calls of BrazeClient.__init__, in order
    clients,              \* how many times BrazeApiClient() was called
    run_customer,         \* overlapping runs: --enterprise-customer-uuid
    run_days,             \* overlapping runs: the days option
    run_pc,               \* overlapping runs: where each run is
    run_licenses,         \* overlapping runs: the rows each run has yet to send
    run_sent,             \* overlapping runs: the licenses each run emailed
    run_failed,           \* overlapping runs: the licenses a send to which failed
    tries,                \* how many times this run called the send function, per license
    loop_start            \* the rows, tries and markers when the send loop started

db == <<status, expiration_date, expiration_reminder_sent_date,
        subscription_plan_expiration_email_sent_date>>
args == <<command, uuids_string, enterprise_customer_uuids, days, dry_run, braze_campaign_id>>
locals == <<idx, expiration_window_start, expiration_window_end, licenses,
            success_count, failure_count, total_success_count, total_failure_count,
            enterprise_level_failures, result>>
sends == <<emails_sent, last_send, attempted, succeeded, attempt_count, failed_sends, tries>>
calls == <<queries, queried, selected_count, api_calls, failed_customers, loop_start>>
observed == <<sends, calls, found, query_date, start_marker>>
pii == <<user_email, revoked_date, assigned_date>>
retirement == <<ready_for_retirement_date, expired_licenses_for_retirement,
                revoked_licenses_for_retirement, assigned_licenses_for_retirement,
                pending, started, before>>
admin == <<is_active, title, response, subscription_plans>>
\* What the two email commands never touch.
braze == <<settings, raised, init_calls, clients>>
overlap == <<run_customer, run_days, run_pc, run_licenses, run_sent, run_failed>>
elsewhere == <<pii, retirement, admin, braze, overlap>>
vars == <<now, db, pc, runs, args, locals, observed, elsewhere>>

\* The sent-date marker column a command reads and writes.
Marker(cmd) ==
    IF cmd = REMINDERS THEN expiration_reminder_sent_date
    ELSE subscription_plan_expiration_email_sent_date

\* ------------------------------------------- _parse_enterprise_customer_uuids
IsSeparator(ch) == ch \in {",", " "}

\* str.strip(): the whitespace at both ends is dropped.
RECURSIVE LStrip(_)
LStrip(str) == IF Len(str) > 0 /\ Head(str) = " " THEN LStrip(Tail(str)) ELSE str
RECURSIVE RStrip(_)
RStrip(str) ==
    IF Len(str) > 0 /\ str[Len(str)] = " " THEN RStrip(SubSeq(str, 1, Len(str) - 1)) ELSE str
Strip(str) == RStrip(LStrip(str))

\* re.split(r'[,\s]+', str): the pieces between the maximal runs of
\* separators, an empty piece included where str starts or ends with one.
RECURSIVE SplitFrom(_, _, _)
SplitFrom(str, piece, in_separator) ==
    IF Len(str) = 0 THEN <<piece>>
    ELSE IF IsSeparator(Head(str))
         THEN IF in_separator THEN SplitFrom(Tail(str), piece, TRUE)
              ELSE <<piece>> \o SplitFrom(Tail(str), <<>>, TRUE)
         ELSE SplitFrom(Tail(str), Append(piece, Head(str)), FALSE)
re_split(str) == SplitFrom(str, <<>>, FALSE)

\* [_uuid.strip() for _uuid in uuids if _uuid.strip()]
RECURSIVE NonEmpty(_)
NonEmpty(pieces) ==
    IF Len(pieces) = 0 THEN <<>>
    ELSE IF Len(Strip(Head(pieces))) = 0 THEN NonEmpty(Tail(pieces))
    ELSE <<Strip(Head(pieces))>> \o NonEmpty(Tail(pieces))

Parse(str) == NonEmpty(re_split(Strip(str)))
\* The items of a text; those of the texts of Spec are computed once.
ArgTokens == [str \in ArgStrings |-> Parse(str)]
Tokens(str) == IF str \in ArgStrings THEN ArgTokens[str] ELSE Parse(str)

\* uuid.UUID(item) returns: the item is the text of one UUID.
FirstTokenChecked(items) == Len(items) = 0 \/ items[1] \in {<<"1">>, <<"2">>}
IsUuid(item) == item \in {<<"1">>, <<"2">>}
AllValid(items) == \A i \in DOMAIN items : IsUuid(items[i])

\* The list _parse_enterprise_customer_uuids returns when it does not raise.
RECURSIVE Returned(_)
Returned(items) ==
    IF Len(items) = 0 THEN <<>>
    ELSE <<CustomerOfText(Head(items)[1])>> \o Returned(Tail(items))
FirstUuidOnly(items) == <<CustomerOfText(items[1][1])>>
ParsedUuids(items) == Returned(items)

\* handle(): the parse raised, or it returned no UUID.
ArgumentRejected(items) == ~AllValid(items) \/ Len(items) = 0

\* ------------------------------------------------- the two license queries
\* _get_expiring_licenses: the window is the calendar day of now + N days.
WindowStartsAtTimeOfDay(t, n) == t + timedelta(n)
get_expiring_window_start(t, n) == Midnight(t + timedelta(n))
WindowOfTwoDays(t, n) == get_expiring_window_start(t, n) + timedelta(2)
get_expiring_window_end(t, n) == get_expiring_window_start(t, n) + timedelta(1)

\* _get_recently_expired_plan_licenses: the N calendar days before today.
WindowEndsNow(t) == t
recently_expired_window_end(t) == Midnight(t)
recently_expired_window_start(t, n) == recently_expired_window_end(t) - timedelta(n)

WindowStart(cmd, t, n) ==
    IF cmd = REMINDERS THEN get_expiring_window_start(t, n)
    ELSE recently_expired_window_start(t, n)
WindowEnd(cmd, t, n) ==
    IF cmd = REMINDERS THEN get_expiring_window_end(t, n)
    ELSE recently_expired_window_end(t)

\* The conditions of License.objects.filter(...), one operator per keyword.
StatusNotUnassigned(l) == status[l] # UNASSIGNED
StatusMatches(l) == status[l] = ACTIVATED
AnyCustomerMatches(l, uuid) == TRUE
CustomerMatches(l, uuid) == enterprise_customer_uuid(subscription_plan(l)) = uuid
ExpirationMatches(l, ws, we) ==
    /\ expiration_date[subscription_plan(l)] >= ws
    /\ expiration_date[subscription_plan(l)] < we
SentDateNotChecked(cmd, l) == TRUE
SentDateIsNull(cmd, l) == Marker(cmd)[l] = Null

\* The rows the queryset yields when it is evaluated against the database.
Query(cmd, uuid, ws, we) ==
    {l \in Licenses :
        /\ StatusMatches(l)
        /\ CustomerMatches(l, uuid)
        /\ ExpirationMatches(l, ws, we)
        /\ SentDateIsNull(cmd, l)}

\* ---------------------------------------------------------- sending a mail
\* The days_until_expiration / days_since_expiration trigger property.
ElapsedWholeDays(cmd, l, t) ==
    IF cmd = REMINDERS
    THEN DeltaDays(expiration_date[subscription_plan(l)], t)
    ELSE DeltaDays(t, expiration_date[subscription_plan(l)])
TriggerDays(cmd, l, t) ==
    IF cmd = REMINDERS
    THEN DeltaDays(expiration_date[subscription_plan(l)], t)
    ELSE DateOf(t) - DateOf(expiration_date[subscription_plan(l)])

\* What a call of the send function can end with.
CampaignNotChecked(campaign) == {"sent", "BrazeClientError", "Exception"}
SendOutcomes(campaign) ==
    IF campaign THEN {"sent", "BrazeClientError", "Exception"} ELSE {"ValueError"}

\* The marker column after the try block of the send loop ran for license l.
MarkerNeverSaved(marker, l, outcome, t) == marker
MarkerStampedBeforeSend(marker, l, outcome, t) ==
    IF outcome = "ValueError" THEN marker ELSE [marker EXCEPT ![l] = DateTime(t)]
MarkerStampedOnFailure(marker, l, outcome, t) == [marker EXCEPT ![l] = DateTime(t)]
MarkerAfterSend(marker, l, outcome, t) ==
    IF outcome = "sent" THEN [marker EXCEPT ![l] = DateTime(t)] ELSE marker

\* The rows still to iterate after license l was handled.
BreakOnFailure(rows, l, outcome) == IF outcome = "sent" THEN rows \ {l} ELSE {}
SkipRestAfterException(rows, l, outcome) == IF outcome = "Exception" THEN {} ELSE rows \ {l}
RemainingAfter(rows, l, outcome) == rows \ {l}

\* handle(): the final raise.
RaisesOnLicenseFailuresOnly(cmd, failures, enterprise_failures) == failures > 0
HandleRaises(cmd, failures, enterprise_failures) ==
    IF cmd = REMINDERS THEN failures > 0
    ELSE (failures + enterprise_failures) > 0

\* _process_enterprise_customer: the dry-run branch returns before any call.
DryRunIgnored(dry) == FALSE
ReturnsBeforeSending(dry) == dry

\* -------------------------------------------------------------------- Init
\* A database of fresh licenses: no marker is set.  License l1 has any
\* status, l2 and l3 are ACTIVATED; the two plans expire at the same time,
\* any of ExpirationDates.
NoLicenses == {}
NoMarkers == [l \in Licenses |-> Null]
NoTries == [l \in Licenses |-> 0]
NoLoop == [licenses |-> {}, tries |-> NoTries, marker |-> NoMarkers]
NoSend == [license |-> "none", outcome |-> "none", query_date |-> 0, trigger_days |-> 0]

\* A user's email address.
Email == <<"user@example.com">>
\* The plan titles of the admin endpoints' test.
Titles == {"Title", "Updated Title"}
\* The values of the include_inactive query parameter ("absent": not given).
IncludeInactive == {"absent", "false", "true"}
NoPlanData == [title |-> "none", is_active |-> FALSE]
NoResponse == [method |-> "none", target |-> "none", include_inactive |-> "none",
               sent |-> NoPlanData, was |-> NoPlanData,
               status_code |-> 0, results |-> {}, data |-> NoPlanData]

\* retire_old_licenses has not run.
NoRetirement ==
    /\ ready_for_retirement_date = 0
    /\ expired_licenses_for_retirement = NoLicenses
    /\ revoked_licenses_for_retirement = NoLicenses
    /\ assigned_licenses_for_retirement = NoLicenses
    /\ pending = NoLicenses
    /\ started = 0
    /\ before = <<>>

\* No request was made of the admin endpoints.
\* The three settings the client needs, and what a setting can hold.
RequiredSettings == {"BRAZE_API_KEY", "BRAZE_API_URL", "BRAZE_APP_ID"}
Undefined == "<undefined>"
None == "<None>"
SettingValues == {Undefined, None, "", "test-value", "other-value"}
\* No overlapping runs.
NoOverlap ==
    /\ run_customer = "c1"
    /\ run_days = 1
    /\ run_pc = <<>>
    /\ run_licenses = <<>>
    /\ run_sent = <<>>
    /\ run_failed = {}

NoClient ==
    /\ settings = [name \in RequiredSettings |-> "test-value"]
    /\ raised = Null
    /\ init_calls = <<>>
    /\ clients = 0

NoAdmin ==
    /\ is_active = [p \in Plans |-> TRUE]
    /\ title = [p \in Plans |-> "Title"]
    /\ response = NoResponse
    /\ subscription_plans = <<>>

Init ==
    /\ now = StartNow
    /\ status \in {f \in [Licenses -> Statuses] : f["l2"] = ACTIVATED /\ f["l3"] = ACTIVATED}
    /\ expiration_date \in {f \in [Plans -> ExpirationDates] : f["p2"] = f["p1"]}
    /\ expiration_reminder_sent_date = NoMarkers
    /\ subscription_plan_expiration_email_sent_date = NoMarkers
    /\ pc = "idle"
    /\ runs = 0
    /\ command \in Commands
    /\ uuids_string = <<>>
    /\ enterprise_customer_uuids = <<>>
    /\ days = 1
    /\ dry_run = FALSE
    /\ braze_campaign_id = TRUE
    /\ idx = 1
    /\ expiration_window_start = 0
    /\ expiration_window_end = 0
    /\ licenses = NoLicenses
    /\ success_count = 0
    /\ failure_count = 0
    /\ total_success_count = 0
    /\ total_failure_count = 0
    /\ enterprise_level_failures = 0
    /\ result = "none"
    /\ emails_sent = [l \in Licenses |-> 0]
    /\ last_send = NoSend
    /\ attempted = NoLicenses
    /\ succeeded = NoLicenses
    /\ attempt_count = 0
    /\ failed_sends = 0
    /\ tries = NoTries
    /\ loop_start = NoLoop
    /\ queries = 0
    /\ queried = <<>>
    /\ selected_count = 0
    /\ api_calls = 0
    /\ failed_customers = 0
    /\ found = NoLicenses
    /\ query_date = 0
    /\ start_marker = NoMarkers
    /\ user_email = [l \in Licenses |-> Email]
    /\ revoked_date = NoMarkers
    /\ assigned_date = NoMarkers
    /\ NoRetirement
    /\ NoAdmin
    /\ NoClient
    /\ NoOverlap

\* The command before its first run.
Idle ==
    /\ pc = "idle"
    /\ runs = 0
    /\ uuids_string = <<>>
    /\ enterprise_customer_uuids = <<>>
    /\ days = 1
    /\ dry_run = FALSE
    /\ braze_campaign_id = TRUE
    /\ idx = 1
    /\ expiration_window_start = 0
    /\ expiration_window_end = 0
    /\ licenses = NoLicenses
    /\ success_count = 0
    /\ failure_count = 0
    /\ total_success_count = 0
    /\ total_failure_count = 0
    /\ enterprise_level_failures = 0
    /\ result = "none"
    /\ emails_sent = [l \in Licenses |-> 0]
    /\ last_send = NoSend
    /\ attempted = NoLicenses
    /\ succeeded = NoLicenses
    /\ attempt_count = 0
    /\ failed_sends = 0
    /\ tries = NoTries
    /\ loop_start = NoLoop
    /\ queries = 0
    /\ queried = <<>>
    /\ selected_count = 0
    /\ api_calls = 0
    /\ failed_customers = 0
    /\ found = NoLicenses
    /\ query_date = 0
    /\ start_marker = NoMarkers

\* One run of a command on any argument text, at one instant: every license
\* is activated and unmarked, the plan of c1 expires one day from now
\* (reminders) or expired one day ago (expiration emails), the plan of c2
\* expires with it or on day 0, outside every window.
InitParse ==
    /\ now = StartNow
    /\ status = [l \in Licenses |-> ACTIVATED]
    /\ command \in Commands
    /\ \E far \in BOOLEAN :
          LET near == IF command = REMINDERS THEN StartNow + timedelta(1)
                      ELSE StartNow - timedelta(1)
          IN expiration_date = [p \in Plans |-> IF p = "p2" /\ far THEN 0 ELSE near]
    /\ expiration_reminder_sent_date = NoMarkers
    /\ subscription_plan_expiration_email_sent_date = NoMarkers
    /\ Idle
    /\ user_email = [l \in Licenses |-> Email]
    /\ revoked_date = NoMarkers
    /\ assigned_date = NoMarkers
    /\ NoRetirement
    /\ NoAdmin
    /\ NoClient
    /\ NoOverlap

\* ----------------------------------------------------------------- actions
\* handle(): what the exception of an enterprise API call does to the totals.
EnterpriseFailureNotCounted(cmd, failures) == failures
FailuresAfterApiError(cmd, failures) == IF cmd = REMINDERS THEN failures + 1 ELSE failures

\* The clock advances.  The commands read the clock when they build a query,
\* when they send and when they stamp a marker; an advance at any other
\* moment is the same as one just before the next of these reads.
Tick ==
    /\ \/ pc = "customer" /\ idx <= Len(enterprise_customer_uuids)
       \/ pc = "loop" /\ licenses # {}
    /\ now < MaxNow
    /\ now' = now + 1
    /\ UNCHANGED <<db, pc, runs, args, locals, observed, elsewhere>>

\* handle(): the arguments are read and the totals start at 0.
StartRun(uuids, n, dry, campaign) ==
    /\ pc \in {"idle", "done"}
    /\ runs < MaxRuns
    /\ runs' = runs + 1
    /\ enterprise_customer_uuids' = uuids
    /\ days' = n
    /\ dry_run' = dry
    /\ braze_campaign_id' = campaign
    /\ idx' = 1
    /\ total_success_count' = 0
    /\ total_failure_count' = 0
    /\ enterprise_level_failures' = 0
    /\ success_count' = 0
    /\ failure_count' = 0
    /\ licenses' = NoLicenses
    /\ expiration_window_start' = 0
    /\ expiration_window_end' = 0
    /\ result' = "none"
    /\ last_send' = NoSend
    /\ attempted' = NoLicenses
    /\ succeeded' = NoLicenses
    /\ attempt_count' = 0
    /\ failed_sends' = 0
    /\ tries' = NoTries
    /\ loop_start' = NoLoop
    /\ queries' = 0
    /\ queried' = <<>>
    /\ selected_count' = 0
    /\ api_calls' = 0
    /\ failed_customers' = 0
    /\ found' = NoLicenses
    /\ query_date' = 0
    /\ start_marker' = Marker(command)
    /\ pc' = "customer"
    /\ UNCHANGED <<now, db, command, emails_sent, elsewhere>>

\* handle() from its first line: the options are read and the UUID argument
\* is parsed; ValueError leaves the command before anything else is done.
Handle(str) ==
    /\ pc \in {"idle", "done"}
    /\ runs < MaxRuns
    /\ uuids_string' = str
    /\ LET items == Tokens(str)
       IN \E n \in DaysChoices, dry \in BOOLEAN, campaign \in BOOLEAN :
            IF ArgumentRejected(items)
            THEN /\ runs' = runs + 1
                 /\ enterprise_customer_uuids' = <<>>
                 /\ days' = n
                 /\ dry_run' = dry
                 /\ braze_campaign_id' = campaign
                 /\ idx' = 1
                 /\ total_success_count' = 0
                 /\ total_failure_count' = 0
                 /\ enterprise_level_failures' = 0
                 /\ success_count' = 0
                 /\ failure_count' = 0
                 /\ licenses' = NoLicenses
                 /\ expiration_window_start' = 0
                 /\ expiration_window_end' = 0
                 /\ result' = "ValueError"
                 /\ last_send' = NoSend
                 /\ attempted' = NoLicenses
                 /\ succeeded' = NoLicenses
                 /\ attempt_count' = 0
                 /\ failed_sends' = 0
                 /\ tries' = NoTries
                 /\ loop_start' = NoLoop
                 /\ queries' = 0
                 /\ queried' = <<>>
                 /\ selected_count' = 0
                 /\ api_calls' = 0
                 /\ failed_customers' = 0
                 /\ found' = NoLicenses
                 /\ query_date' = 0
                 /\ start_marker' = Marker(command)
                 /\ pc' = "done"
                 /\ UNCHANGED <<now, db, command, emails_sent, elsewhere>>
            ELSE StartRun(ParsedUuids(items), n, dry, campaign)

\* _process_enterprise_customer up to the enterprise API call: the query is
\* built from the clock, exists() and count() are evaluated, and the call
\* returns {0, 0} when nothing was found or on a dry run.
ProcessEnterpriseCustomer ==
    /\ pc = "customer"
    /\ idx <= Len(enterprise_customer_uuids)
    /\ LET uuid == enterprise_customer_uuids[idx]
           ws == WindowStart(command, now, days)
           we == WindowEnd(command, now, days)
           rows == Query(command, uuid, ws, we)
       IN /\ expiration_window_start' = ws
          /\ expiration_window_end' = we
          /\ found' = found \cup rows
          /\ query_date' = DateOf(now)
          /\ queries' = queries + 1
          /\ queried' = Append(queried, uuid)
          /\ IF rows = {} \/ ReturnsBeforeSending(dry_run)
             THEN /\ idx' = idx + 1
                  /\ pc' = "customer"
             ELSE /\ idx' = idx
                  /\ pc' = "fetch"
    /\ UNCHANGED <<elsewhere, now, db, runs, args, licenses, success_count, failure_count,
                   total_success_count, total_failure_count, enterprise_level_failures,
                   result, sends, selected_count, api_calls, failed_customers,
                   loop_start, start_marker>>

\* EnterpriseApiClient().get_enterprise_customer_data(uuid).  On success the
\* send loop starts: iterating the queryset evaluates it.  An exception leaves
\* _process_enterprise_customer and is handled by handle().
GetEnterpriseCustomerData(outcome) ==
    /\ pc = "fetch"
    /\ api_calls' = api_calls + 1
    /\ LET uuid == enterprise_customer_uuids[idx]
           rows == Query(command, uuid, expiration_window_start, expiration_window_end)
       IN CASE outcome = "ok" ->
                    /\ licenses' = rows
                    /\ selected_count' = selected_count + Cardinality(rows)
                    /\ success_count' = 0
                    /\ failure_count' = 0
                    /\ pc' = "loop"
                    /\ loop_start' = [licenses |-> rows, tries |-> tries,
                                      marker |-> Marker(command)]
                    /\ UNCHANGED <<idx, total_failure_count, enterprise_level_failures,
                                   result, failed_customers>>
            [] outcome = "ValueError" ->
                    /\ result' = "ValueError"
                    /\ pc' = "done"
                    /\ failed_customers' = failed_customers + 1
                    /\ UNCHANGED <<idx, licenses, selected_count, success_count, failure_count,
                                   total_failure_count, enterprise_level_failures, loop_start>>
            [] OTHER ->
                    /\ total_failure_count' = FailuresAfterApiError(command, total_failure_count)
                    /\ enterprise_level_failures' =
                            IF command = REMINDERS THEN enterprise_level_failures
                            ELSE enterprise_level_failures + 1
                    /\ failed_customers' = failed_customers + 1
                    /\ idx' = idx + 1
                    /\ pc' = "customer"
                    /\ UNCHANGED <<licenses, selected_count, success_count, failure_count, result,
                                   loop_start>>
    /\ UNCHANGED <<elsewhere, now, db, runs, args, expiration_window_start,
                   expiration_window_end, total_success_count, sends, queries, queried, found, query_date,
                   start_marker>>

\* One iteration of the send loop: the send function is called for license l
\* and, when it returns, the marker is stamped and saved.
SendOne(l, outcome) ==
    /\ pc = "loop"
    /\ l \in licenses
    /\ outcome \in SendOutcomes(braze_campaign_id)
    /\ last_send' = [license |-> l, outcome |-> outcome, query_date |-> query_date,
                     trigger_days |-> TriggerDays(command, l, now)]
    /\ attempted' = attempted \cup {l}
    /\ attempt_count' = attempt_count + 1
    /\ tries' = [tries EXCEPT ![l] = @ + 1]
    /\ succeeded' = IF outcome = "sent" THEN succeeded \cup {l} ELSE succeeded
    /\ failed_sends' = IF outcome = "sent" THEN failed_sends ELSE failed_sends + 1
    /\ emails_sent' = IF outcome = "sent" THEN [emails_sent EXCEPT ![l] = @ + 1]
                      ELSE emails_sent
    /\ IF command = REMINDERS
       THEN /\ expiration_reminder_sent_date' =
                    MarkerAfterSend(expiration_reminder_sent_date, l, outcome, now)
            /\ UNCHANGED subscription_plan_expiration_email_sent_date
       ELSE /\ subscription_plan_expiration_email_sent_date' =
                    MarkerAfterSend(subscription_plan_expiration_email_sent_date, l, outcome, now)
            /\ UNCHANGED expiration_reminder_sent_date
    /\ IF outcome = "ValueError"
       THEN /\ result' = "ValueError"
            /\ pc' = "done"
            /\ UNCHANGED <<licenses, success_count, failure_count>>
       ELSE /\ licenses' = RemainingAfter(licenses, l, outcome)
            /\ success_count' = IF outcome = "sent" THEN success_count + 1 ELSE success_count
            /\ failure_count' = IF outcome = "sent" THEN failure_count ELSE failure_count + 1
            /\ UNCHANGED <<result, pc>>
    /\ UNCHANGED <<elsewhere, now, status, expiration_date, runs, args, idx,
                   expiration_window_start, expiration_window_end, total_success_count, total_failure_count,
                   enterprise_level_failures, calls, found, query_date, start_marker>>

\* The send loop is over: _process_enterprise_customer returns its counts
\* and handle() adds them to the totals.
ReturnCounts ==
    /\ pc = "loop"
    /\ licenses = {}
    /\ total_success_count' = total_success_count + success_count
    /\ total_failure_count' = total_failure_count + failure_count
    /\ idx' = idx + 1
    /\ pc' = "customer"
    /\ UNCHANGED <<elsewhere, now, db, runs, args, expiration_window_start,
                   expiration_window_end, licenses, success_count, failure_count, enterprise_level_failures,
                   result, observed>>

\* handle() after its loop: the totals are logged and decide the raise.
Finish ==
    /\ pc = "customer"
    /\ idx > Len(enterprise_customer_uuids)
    /\ result' = IF HandleRaises(command, total_failure_count, enterprise_level_failures)
                 THEN "Exception" ELSE "returned"
    /\ pc' = "done"
    /\ UNCHANGED <<elsewhere, now, db, runs, args, idx, expiration_window_start,
                   expiration_window_end,
                   licenses, success_count, failure_count, total_success_count,
                   total_failure_count, enterprise_level_failures, observed>>

Next ==
    \/ Tick
    \/ \E str \in ArgStrings : Handle(str)
    \/ ProcessEnterpriseCustomer
    \/ \E outcome \in {"ok", "Exception", "ValueError"} : GetEnterpriseCustomerData(outcome)
    \/ \E l \in Licenses, outcome \in {"sent", "BrazeClientError", "Exception", "ValueError"} :
            SendOne(l, outcome)
    \/ ReturnCounts
    \/ Finish

Spec == Init /\ [][Next]_vars

NextParse ==
    \/ /\ pc = "idle"
       /\ \E str \in AllStrings : Handle(str)
    \/ ProcessEnterpriseCustomer
    \/ \E outcome \in {"ok", "Exception", "ValueError"} : GetEnterpriseCustomerData(outcome)
    \/ \E l \in Licenses, outcome \in {"sent", "BrazeClientError", "Exception", "ValueError"} :
            SendOne(l, outcome)
    \/ ReturnCounts
    \/ Finish

SpecParse == InitParse /\ [][NextParse]_vars

\* ------------------------------------------------------ retire_old_licenses
DAYS_TO_RETIRE == 90

\* The day the command runs on, and the instants of that day.
RetireDay == DAYS_TO_RETIRE + 10
RetireNow == timedelta(RetireDay)
MaxRetireNow == RetireNow + TicksPerDay - 1

\* The dates of the licenses and plans: the last instant of the day 91 days
\* before RetireDay, 00:00 of the day 90 days before it, the day before it,
\* and a day still to come.
LongAgo == timedelta(RetireDay - DAYS_TO_RETIRE) - 1
NinetyDaysAgo == timedelta(RetireDay - DAYS_TO_RETIRE)
Yesterday == timedelta(RetireDay - 1)
LaterOn == timedelta(RetireDay + 10)
PastDates == {LongAgo, NinetyDaysAgo, Yesterday}

\* The rows the license lifecycle produces: an unassigned license holds no
\* user data, an assigned or activated one holds an email and its assignment
\* date, a revoked one its revocation date and, until it is retired, the email.
LicenseRows ==
    {[status |-> UNASSIGNED, user_email |-> Null, assigned_date |-> Null, revoked_date |-> Null]}
    \cup {[status |-> st, user_email |-> Email, assigned_date |-> DateTime(d),
           revoked_date |-> Null] : st \in {ASSIGNED, ACTIVATED}, d \in PastDates}
    \cup {[status |-> REVOKED, user_email |-> e, assigned_date |-> DateTime(LongAgo),
           revoked_date |-> DateTime(d)] : e \in {Null, Email}, d \in PastDates}

InitRetire ==
    /\ now = RetireNow
    /\ command = "retire_old_licenses"
    /\ \E r1 \in LicenseRows, r3 \in LicenseRows :
          LET row == [l \in Licenses |->
                         IF l = "l1" THEN r1
                         ELSE IF l = "l3" THEN r3
                         ELSE [status |-> ASSIGNED, user_email |-> Email,
                               assigned_date |-> DateTime(LongAgo), revoked_date |-> Null]]
          IN /\ status = [l \in Licenses |-> row[l].status]
             /\ user_email = [l \in Licenses |-> row[l].user_email]
             /\ assigned_date = [l \in Licenses |-> row[l].assigned_date]
             /\ revoked_date = [l \in Licenses |-> row[l].revoked_date]
    /\ expiration_date \in [Plans -> {LongAgo, NinetyDaysAgo, LaterOn}]
    /\ expiration_reminder_sent_date = NoMarkers
    /\ subscription_plan_expiration_email_sent_date = NoMarkers
    /\ Idle
    /\ NoRetirement
    /\ NoAdmin
    /\ NoClient
    /\ NoOverlap

\* What retire_old_licenses never touches.
not_retired == <<expiration_date, expiration_reminder_sent_date,
                 subscription_plan_expiration_email_sent_date, args, locals, observed, admin,
                 braze, overlap>>

\* The three filters. A DateTimeField compared with a date is compared with
\* 00:00 of that date; the __date transform compares calendar days.
ExpiredNotYetRevoked(l, ready) ==
    /\ user_email[l] # Null
    /\ status[l] # REVOKED
    /\ expiration_date[subscription_plan(l)] < timedelta(ready)
ExpiredWhateverEmail(l, ready) == expiration_date[subscription_plan(l)] < timedelta(ready)
ExpiredForRetirement(l, ready) ==
    /\ user_email[l] # Null
    /\ expiration_date[subscription_plan(l)] < timedelta(ready)
RevokedADayEarlier(l, ready) ==
    /\ status[l] = REVOKED
    /\ user_email[l] # Null
    /\ revoked_date[l] # Null
    /\ DateOf(revoked_date[l][1]) < ready - 1
RevokedOnOrBefore(l, ready) ==
    /\ status[l] = REVOKED
    /\ user_email[l] # Null
    /\ revoked_date[l] # Null
    /\ DateOf(revoked_date[l][1]) <= ready
RevokedForRetirement(l, ready) ==
    /\ status[l] = REVOKED
    /\ user_email[l] # Null
    /\ revoked_date[l] # Null
    /\ DateOf(revoked_date[l][1]) < ready
AssignedADayEarlier(l, ready) ==
    /\ status[l] = ASSIGNED
    /\ assigned_date[l] # Null
    /\ DateOf(assigned_date[l][1]) < ready - 1
AssignedWhateverStatus(l, ready) ==
    /\ assigned_date[l] # Null
    /\ DateOf(assigned_date[l][1]) < ready
AssignedForRetirement(l, ready) ==
    /\ status[l] = ASSIGNED
    /\ assigned_date[l] # Null
    /\ DateOf(assigned_date[l][1]) < ready

\* License.clear_pii(): the user's data is removed from the row.
clear_pii(l) == user_email' = [user_email EXCEPT ![l] = Null]

\* License.reset_to_unassigned(): the row goes back to the unassigned pool
\* with none of its data.
reset_to_unassigned(l) ==
    /\ status' = [status EXCEPT ![l] = UNASSIGNED]
    /\ user_email' = [user_email EXCEPT ![l] = Null]
    /\ assigned_date' = [assigned_date EXCEPT ![l] = Null]
    /\ revoked_date' = [revoked_date EXCEPT ![l] = Null]

\* The clock advances before the command reads it: before a run starts and
\* before datetime.now() in the loop over the expired licenses.
RetireTick ==
    /\ \/ pc \in {"idle", "done"} /\ runs < MaxRuns
       \/ pc = "expired" /\ pending # {}
    /\ now < MaxRetireNow
    /\ now' = now + 1
    /\ UNCHANGED <<status, pii, retirement, pc, runs, not_retired>>

\* handle(): the retirement date is computed and the three querysets built.
StartRetirement ==
    /\ pc \in {"idle", "done"}
    /\ runs < MaxRuns
    /\ runs' = runs + 1
    /\ ready_for_retirement_date' = DateOf(now) - DAYS_TO_RETIRE
    /\ started' = now
    /\ before' = [status |-> status, user_email |-> user_email,
                  revoked_date |-> revoked_date, assigned_date |-> assigned_date]
    /\ expired_licenses_for_retirement' = NoLicenses
    /\ revoked_licenses_for_retirement' = NoLicenses
    /\ assigned_licenses_for_retirement' = NoLicenses
    /\ pending' = NoLicenses
    /\ pc' = "start"
    /\ UNCHANGED <<now, status, pii, not_retired>>

\* The loop over the expired licenses starts: its queryset is evaluated.
SelectExpired ==
    /\ pc = "start"
    /\ expired_licenses_for_retirement' =
           {l \in Licenses : ExpiredForRetirement(l, ready_for_retirement_date)}
    /\ pending' = expired_licenses_for_retirement'
    /\ pc' = "expired"
    /\ UNCHANGED <<now, status, pii, runs, ready_for_retirement_date,
                   revoked_licenses_for_retirement, assigned_licenses_for_retirement,
                   started, before, not_retired>>

\* One iteration of the loop over the expired licenses.
RetireExpired(l) ==
    /\ pc = "expired"
    /\ l \in pending
    /\ clear_pii(l)
    /\ status' = [status EXCEPT ![l] = REVOKED]
    /\ revoked_date' = [revoked_date EXCEPT ![l] = DateTime(now)]
    /\ pending' = pending \ {l}
    /\ UNCHANGED <<now, assigned_date, pc, runs, ready_for_retirement_date,
                   expired_licenses_for_retirement, revoked_licenses_for_retirement,
                   assigned_licenses_for_retirement, started, before, not_retired>>

\* The loop over the revoked licenses starts: its queryset is evaluated.
SelectRevoked ==
    /\ pc = "expired"
    /\ pending = {}
    /\ revoked_licenses_for_retirement' =
           {l \in Licenses : RevokedForRetirement(l, ready_for_retirement_date)}
    /\ pending' = revoked_licenses_for_retirement'
    /\ pc' = "revoked"
    /\ UNCHANGED <<now, status, pii, runs, ready_for_retirement_date,
                   expired_licenses_for_retirement, assigned_licenses_for_retirement,
                   started, before, not_retired>>

\* One iteration of the loop over the revoked licenses.
RetireRevoked(l) ==
    /\ pc = "revoked"
    /\ l \in pending
    /\ clear_pii(l)
    /\ pending' = pending \ {l}
    /\ UNCHANGED <<now, status, revoked_date, assigned_date, pc, runs,
                   ready_for_retirement_date, expired_licenses_for_retirement,
                   revoked_licenses_for_retirement, assigned_licenses_for_retirement,
                   started, before, not_retired>>

\* The loop over the assigned licenses starts: its queryset is evaluated.
SelectAssigned ==
    /\ pc = "revoked"
    /\ pending = {}
    /\ assigned_licenses_for_retirement' =
           {l \in Licenses : AssignedForRetirement(l, ready_for_retirement_date)}
    /\ pending' = assigned_licenses_for_retirement'
    /\ pc' = "assigned"
    /\ UNCHANGED <<now, status, pii, runs, ready_for_retirement_date,
                   expired_licenses_for_retirement, revoked_licenses_for_retirement,
                   started, before, not_retired>>

\* One iteration of the loop over the assigned licenses.
RetireAssigned(l) ==
    /\ pc = "assigned"
    /\ l \in pending
    /\ reset_to_unassigned(l)
    /\ pending' = pending \ {l}
    /\ UNCHANGED <<now, pc, runs, ready_for_retirement_date,
                   expired_licenses_for_retirement, revoked_licenses_for_retirement,
                   assigned_licenses_for_retirement, started, before, not_retired>>

\* handle() returns.
FinishRetirement ==
    /\ pc = "assigned"
    /\ pending = {}
    /\ pc' = "done"
    /\ UNCHANGED <<now, status, pii, retirement, runs, not_retired>>

NextRetire ==
    \/ RetireTick
    \/ StartRetirement
    \/ SelectExpired
    \/ \E l \in Licenses : RetireExpired(l)
    \/ SelectRevoked
    \/ \E l \in Licenses : RetireRevoked(l)
    \/ SelectAssigned
    \/ \E l \in Licenses : RetireAssigned(l)
    \/ FinishRetirement

SpecRetire == InitRetire /\ [][NextRetire]_vars

\* ------------------------ the provisioning-admin subscription-plan endpoints
InitAdmin ==
    /\ now = StartNow
    /\ command = "none"
    /\ status = [l \in Licenses |-> ACTIVATED]
    /\ expiration_date = [p \in Plans |-> StartNow]
    /\ expiration_reminder_sent_date = NoMarkers
    /\ subscription_plan_expiration_email_sent_date = NoMarkers
    /\ Idle
    /\ user_email = [l \in Licenses |-> Email]
    /\ revoked_date = NoMarkers
    /\ assigned_date = NoMarkers
    /\ NoRetirement
    /\ NoClient
    /\ NoOverlap
    /\ is_active \in [Plans -> BOOLEAN]
    /\ title = [p \in Plans |-> "Title"]
    /\ response = NoResponse
    /\ subscription_plans = <<>>

\* What the admin endpoints never touch.
not_admin == <<now, db, pc, runs, args, locals, observed, pii, retirement, braze, overlap>>

\* The queryset of the viewset: the active plans, and the inactive ones
\* too when the request says include_inactive=true.
IncludeInactiveGiven(p, include_inactive) == is_active[p] \/ include_inactive # "absent"
Visible(p, include_inactive) == is_active[p] \/ include_inactive = "true"

\* The object a detail request finds: a plan of that queryset.
FoundWhateverActive(p, include_inactive) == TRUE
FoundForUpdate(p, include_inactive) == Visible(p, include_inactive)

\* GET list?enterprise_customer_uuid=customer[&include_inactive=...]
ListPlans(customer, include_inactive) ==
    /\ response' = [NoResponse EXCEPT
                        !.method = "GET",
                        !.target = customer,
                        !.include_inactive = include_inactive,
                        !.status_code = 200,
                        !.results = {p \in Plans : /\ enterprise_customer_uuid(p) = customer
                                                   /\ Visible(p, include_inactive)}]
    /\ UNCHANGED <<is_active, title, subscription_plans, not_admin>>

\* PATCH detail/<plan>[?include_inactive=...] with {'title': new_title}
PatchPlan(p, include_inactive, new_title) ==
    LET request == [NoResponse EXCEPT
                        !.method = "PATCH",
                        !.target = p,
                        !.include_inactive = include_inactive,
                        !.sent = [title |-> new_title, is_active |-> is_active[p]],
                        !.was = [title |-> title[p], is_active |-> is_active[p]]]
    IN IF FoundForUpdate(p, include_inactive)
       THEN /\ title' = [title EXCEPT ![p] = new_title]
            /\ response' = [request EXCEPT
                                !.status_code = 200,
                                !.data = [title |-> new_title, is_active |-> is_active[p]]]
            /\ UNCHANGED <<is_active, subscription_plans, not_admin>>
       ELSE /\ response' = [request EXCEPT !.status_code = 404]
            /\ UNCHANGED <<is_active, title, subscription_plans, not_admin>>

NextAdmin ==
    \/ \E customer \in Customers, include_inactive \in IncludeInactive :
            ListPlans(customer, include_inactive)
    \/ \E p \in Plans, include_inactive \in IncludeInactive, new_title \in Titles :
            PatchPlan(p, include_inactive, new_title)

SpecAdmin == InitAdmin /\ [][NextAdmin]_vars

\* ------------- the provisioning-admin endpoints: who may call them, creation
\* The system role of the endpoints, another enterprise role, and no role.
SYSTEM_ENTERPRISE_PROVISIONING_ADMIN_ROLE == "enterprise_provisioning_admin"
Roles == {SYSTEM_ENTERPRISE_PROVISIONING_ADMIN_ROLE, "enterprise_admin", "none"}
\* Who sends a request: a staff or non-staff user, with a role assigned
\* through the JWT or through the database.
Requesters == [is_staff : BOOLEAN, role : Roles, assign_via_jwt : BOOLEAN]
\* The titles of the payloads and the customer agreements, one per customer.
PlanTitles == {"foo", "bar"}
CustomerAgreements == {"a1", "a2"}
AgreementCustomer(a) == IF a = "a1" THEN "c1" ELSE "c2"
NoRequester == [is_staff |-> FALSE, role |-> "none", assign_via_jwt |-> FALSE]
NoRequest == [method |-> "none", requester |-> NoRequester, title |-> "none",
              customer_agreement |-> "none", row |-> 0, status_code |-> 0,
              results |-> {}]

InitProvision ==
    /\ now = StartNow
    /\ command = "none"
    /\ status = [l \in Licenses |-> ACTIVATED]
    /\ expiration_date = [p \in Plans |-> StartNow]
    /\ expiration_reminder_sent_date = NoMarkers
    /\ subscription_plan_expiration_email_sent_date = NoMarkers
    /\ Idle
    /\ user_email = [l \in Licenses |-> Email]
    /\ revoked_date = NoMarkers
    /\ assigned_date = NoMarkers
    /\ NoRetirement
    /\ NoClient
    /\ NoOverlap
    /\ is_active = [p \in Plans |-> TRUE]
    /\ title = [p \in Plans |-> "Title"]
    /\ response = NoRequest
    /\ subscription_plans = <<>>

\* The permission of the viewset: the requester holds the system role.
StaffAllowed(requester) ==
    requester.is_staff \/ requester.role = SYSTEM_ENTERPRISE_PROVISIONING_ADMIN_ROLE
Authorised(requester) == requester.role = SYSTEM_ENTERPRISE_PROVISIONING_ADMIN_ROLE

\* The unique-together validation of (title, customer_agreement): a row
\* other than row `except` holds the pair.
NeverTaken(rows, except, t, a) == FALSE
MustMakeAUniqueSet(rows, except, t, a) ==
    \E i \in DOMAIN rows :
        i # except /\ rows[i].title = t /\ rows[i].customer_agreement = a

\* POST subscriptions {title, customer_agreement, ...}
CreatePlan(requester, t, a) ==
    LET request == [NoRequest EXCEPT !.method = "POST", !.requester = requester,
                                     !.title = t, !.customer_agreement = a]
    IN /\ IF ~Authorised(requester)
          THEN /\ response' = [request EXCEPT !.status_code = 403]
               /\ UNCHANGED subscription_plans
          ELSE IF MustMakeAUniqueSet(subscription_plans, 0, t, a)
          THEN /\ response' = [request EXCEPT !.status_code = 400]
               /\ UNCHANGED subscription_plans
          ELSE /\ Len(subscription_plans) < MaxPlans
               /\ subscription_plans' =
                      Append(subscription_plans, [title |-> t, customer_agreement |-> a])
               /\ response' = [request EXCEPT !.status_code = 201,
                                              !.row = Len(subscription_plans) + 1]
       /\ UNCHANGED <<is_active, title, not_admin>>

\* GET subscriptions[?enterprise_customer_uuid=customer]
ListCreated(requester, customer) ==
    LET request == [NoRequest EXCEPT !.method = "GET", !.requester = requester,
                                     !.customer_agreement = customer]
    IN /\ IF ~Authorised(requester)
          THEN response' = [request EXCEPT !.status_code = 403]
          ELSE response' = [request EXCEPT
                               !.status_code = 200,
                               !.results = {i \in DOMAIN subscription_plans :
                                   \/ customer = "absent"
                                   \/ AgreementCustomer(
                                          subscription_plans[i].customer_agreement) = customer}]
       /\ UNCHANGED <<is_active, title, subscription_plans, not_admin>>

\* PATCH subscriptions/<row> {title}; row 0 is a uuid of no plan.
UpdatePlan(requester, i, t) ==
    LET request == [NoRequest EXCEPT !.method = "PATCH", !.requester = requester,
                                     !.title = t, !.row = i]
    IN /\ IF ~Authorised(requester)
          THEN /\ response' = [request EXCEPT !.status_code = 403]
               /\ UNCHANGED subscription_plans
          ELSE IF i \notin DOMAIN subscription_plans
          THEN /\ response' = [request EXCEPT !.status_code = 404]
               /\ UNCHANGED subscription_plans
          ELSE IF MustMakeAUniqueSet(subscription_plans, i, t,
                                     subscription_plans[i].customer_agreement)
          THEN /\ response' = [request EXCEPT !.status_code = 400]
               /\ UNCHANGED subscription_plans
          ELSE /\ subscription_plans' = [subscription_plans EXCEPT ![i].title = t]
               /\ response' = [request EXCEPT !.status_code = 200]
       /\ UNCHANGED <<is_active, title, not_admin>>

NextProvision ==
    \/ \E requester \in Requesters, t \in PlanTitles, a \in CustomerAgreements :
            CreatePlan(requester, t, a)
    \/ \E requester \in Requesters, customer \in Customers \cup {"absent"} :
            ListCreated(requester, customer)
    \/ \E requester \in Requesters, i \in 0 .. MaxPlans, t \in PlanTitles :
            UpdatePlan(requester, i, t)

SpecProvision == InitProvision /\ [][NextProvision]_vars

\* ------------------------------------------------ BrazeApiClient.__init__
InitClient ==
    /\ now = StartNow
    /\ command = "none"
    /\ status = [l \in Licenses |-> ACTIVATED]
    /\ expiration_date = [p \in Plans |-> StartNow]
    /\ expiration_reminder_sent_date = NoMarkers
    /\ subscription_plan_expiration_email_sent_date = NoMarkers
    /\ Idle
    /\ user_email = [l \in Licenses |-> Email]
    /\ revoked_date = NoMarkers
    /\ assigned_date = NoMarkers
    /\ NoRetirement
    /\ NoAdmin
    /\ NoOverlap
    /\ settings \in [RequiredSettings -> SettingValues]
    /\ raised = Null
    /\ init_calls = <<>>
    /\ clients = 0

not_client == <<now, db, pc, runs, args, locals, observed, pii, retirement, admin, overlap>>

\* `not getattr(settings, name, None)`: undefined, None and '' are all falsy.
IsNone(value) == value \in {Undefined, None}
Missing(value) == value \in {Undefined, None, ""}

\* The first required setting, in the order they are checked, that is missing.
MissingSettings(s) == {name \in RequiredSettings : Missing(s[name])}
FirstMissing(s) ==
    IF Missing(s["BRAZE_API_KEY"]) THEN "BRAZE_API_KEY"
    ELSE IF Missing(s["BRAZE_API_URL"]) THEN "BRAZE_API_URL"
    ELSE "BRAZE_APP_ID"

\* BrazeApiClient()
Construct ==
    /\ clients < MaxClients
    /\ clients' = clients + 1
    /\ IF MissingSettings(settings) # {}
       THEN /\ raised' = <<"ValueError", FirstMissing(settings)>>
            /\ UNCHANGED init_calls
       ELSE /\ raised' = Null
            /\ init_calls' = Append(init_calls,
                                    [api_key |-> settings["BRAZE_API_KEY"],
                                     api_url |-> settings["BRAZE_API_URL"],
                                     app_id |-> settings["BRAZE_APP_ID"]])
    /\ UNCHANGED <<settings, not_client>>

\* override_settings(...) / delattr(settings, ...): one setting changes.
OverrideSetting(name, value) ==
    /\ settings[name] # value
    /\ settings' = [settings EXCEPT ![name] = value]
    /\ UNCHANGED <<raised, init_calls, clients, not_client>>

NextClient ==
    \/ Construct
    \/ \E name \in RequiredSettings, value \in SettingValues : OverrideSetting(name, value)

SpecClient == InitClient /\ [][NextClient]_vars

\* --------------------------- two runs of one email command at the same time
\* The cron starts a run while another is still going: the two processes
\* share the database and nothing else.  Each run is one call of
\* _process_enterprise_customer for the same customer.
CronRuns == {1, 2}

InitOverlap ==
    /\ now = StartNow
    /\ status = [l \in Licenses |-> ACTIVATED]
    /\ expiration_date \in {f \in [Plans -> ExpirationDates] : f["p2"] = f["p1"]}
    /\ expiration_reminder_sent_date = NoMarkers
    /\ subscription_plan_expiration_email_sent_date = NoMarkers
    /\ Idle
    /\ command \in Commands
    /\ user_email = [l \in Licenses |-> Email]
    /\ revoked_date = NoMarkers
    /\ assigned_date = NoMarkers
    /\ NoRetirement
    /\ NoAdmin
    /\ NoClient
    /\ run_customer \in Customers
    /\ run_days \in DaysChoices
    /\ run_pc = [r \in CronRuns |-> "start"]
    /\ run_licenses = [r \in CronRuns |-> NoLicenses]
    /\ run_sent = [r \in CronRuns |-> NoLicenses]
    /\ run_failed = NoLicenses

not_overlap == <<status, expiration_date, pc, runs, args, locals, observed, pii, retirement,
                 admin, braze, run_customer, run_days>>

\* Time passes while a run is going; the runs stay within the day they
\* started on.
LastTickOfDay == StartNow + TicksPerDay - 1
OverlapTick ==
    /\ \E r \in CronRuns : run_pc[r] = "loop"
    /\ now < LastTickOfDay
    /\ now' = now + 1
    /\ UNCHANGED <<expiration_reminder_sent_date, subscription_plan_expiration_email_sent_date,
                   run_pc, run_licenses, run_sent, run_failed, not_overlap>>

\* Run r reaches `for license in expiring_licenses`: the queryset built by
\* _get_expiring_licenses is evaluated against the database as it is now.
SelectLicenses(r) ==
    /\ run_pc[r] = "start"
    /\ run_licenses' = [run_licenses EXCEPT ![r] =
            Query(command, run_customer, WindowStart(command, now, run_days),
                  WindowEnd(command, now, run_days))]
    /\ run_pc' = [run_pc EXCEPT ![r] = "loop"]
    /\ UNCHANGED <<now, expiration_reminder_sent_date,
                   subscription_plan_expiration_email_sent_date, run_sent, run_failed,
                   not_overlap>>

\* One iteration of run r's loop: the email of license l is sent and, on
\* success, the marker is stamped and saved.
SendAndMark(r, l, outcome) ==
    /\ run_pc[r] = "loop"
    /\ l \in run_licenses[r]
    /\ run_licenses' = [run_licenses EXCEPT ![r] = RemainingAfter(@, l, outcome)]
    /\ run_sent' = IF outcome = "sent" THEN [run_sent EXCEPT ![r] = @ \cup {l}] ELSE run_sent
    /\ run_failed' = IF outcome = "sent" THEN run_failed ELSE run_failed \cup {l}
    /\ IF command = REMINDERS
       THEN /\ expiration_reminder_sent_date' =
                    MarkerAfterSend(expiration_reminder_sent_date, l, outcome, now)
            /\ UNCHANGED subscription_plan_expiration_email_sent_date
       ELSE /\ subscription_plan_expiration_email_sent_date' =
                    MarkerAfterSend(subscription_plan_expiration_email_sent_date, l, outcome, now)
            /\ UNCHANGED expiration_reminder_sent_date
    /\ UNCHANGED <<now, run_pc, not_overlap>>

\* Run r's loop is over and the command returns.
EndOfRun(r) ==
    /\ run_pc[r] = "loop"
    /\ run_licenses[r] = {}
    /\ run_pc' = [run_pc EXCEPT ![r] = "done"]
    /\ UNCHANGED <<now, expiration_reminder_sent_date,
                   subscription_plan_expiration_email_sent_date, run_licenses, run_sent,
                   run_failed, not_overlap>>

NextOverlap ==
    \/ OverlapTick
    \/ \E r \in CronRuns : SelectLicenses(r)
    \/ \E r \in CronRuns, l \in Licenses, outcome \in {"sent", "failed"} :
            SendAndMark(r, l, outcome)
    \/ \E r \in CronRuns : EndOfRun(r)

SpecOverlap == InitOverlap /\ [][NextOverlap]_vars

\* ------------------------------------------------ the cron keeps running
\* The cron starts the command again after a run ended.
StartAgain(r) ==
    /\ run_pc[r] = "done"
    /\ run_pc' = [run_pc EXCEPT ![r] = "start"]
    /\ UNCHANGED <<now, expiration_reminder_sent_date,
                   subscription_plan_expiration_email_sent_date, run_licenses, run_sent,
                   run_failed, not_overlap>>

InitCron ==
    /\ InitOverlap
    /\ run_customer = "c1"
    /\ expiration_date["p1"] \in
          {WindowStart(command, StartNow, run_days), WindowEnd(command, StartNow, run_days)}

NextCron ==
    \/ NextOverlap
    \/ \E r \in CronRuns : StartAgain(r)

\* The cron starts runs for ever and a started run goes on to its end; a send
\* to a license that is tried again and again succeeds at some time.
CronFairness ==
    /\ \A r \in CronRuns :
          /\ WF_vars(StartAgain(r))
          /\ WF_vars(SelectLicenses(r))
          /\ WF_vars(\E l \in Licenses, outcome \in {"sent", "failed"} :
                        SendAndMark(r, l, outcome))
          /\ WF_vars(EndOfRun(r))
    /\ \A l \in Licenses : SF_vars(\E r \in CronRuns : SendAndMark(r, l, "sent"))

SpecCron == InitCron /\ [][NextCron]_vars /\ CronFairness

\* ================================================================== claims
Requested == {enterprise_customer_uuids[i] : i \in DOMAIN enterprise_customer_uuids}
CustomerOf(l) == enterprise_customer_uuid(subscription_plan(l))
ExpiresAt(l) == expiration_date[subscription_plan(l)]
RunEnded == pc = "done" /\ result \in {"returned", "Exception"}
InLastWindow(l) == ExpirationMatches(l, expiration_window_start, expiration_window_end)

\* C1: over any sequence of runs of a command, with any arguments and any
\* pattern of send failures, no license gets that command's email twice.
C1_NoDuplicateEmail == \A l \in Licenses : emails_sent[l] <= 1

\* A second run has ended in which a license emailed by the first run was
\* still activated, requested and inside the window, while another send failed.
C1_Witness ==
    /\ runs = 2
    /\ RunEnded
    /\ failed_sends > 0
    /\ \E l \in Licenses :
        /\ emails_sent[l] = 1
        /\ start_marker[l] # Null
        /\ CustomerOf(l) \in Requested
        /\ InLastWindow(l)

\* C2: for every license a run attempted, the marker is set if and only if
\* its send succeeded in this run; right after a send that raised, the
\* license's marker is null.
C2_MarkerIffSent ==
    /\ \A l \in attempted : (Marker(command)[l] # Null) <=> (l \in succeeded)
    /\ last_send.outcome \in {"BrazeClientError", "Exception", "ValueError"}
            => Marker(command)[last_send.license] = Null
    /\ last_send.outcome = "sent" => Marker(command)[last_send.license] # Null

\* A non-dry run has ended with one license sent and marked and another one
\* whose send raised BrazeClientError.
C2_Witness ==
    /\ RunEnded
    /\ ~dry_run
    /\ succeeded # {}
    /\ attempted \ succeeded # {}
    /\ last_send.outcome = "BrazeClientError"

\* C3: a license whose marker is set when a run starts is not counted by
\* 'Found N licenses', the send function is not called for it and its
\* marker keeps its value.
C3_MarkedNeverSelected ==
    \A l \in Licenses :
        start_marker[l] # Null =>
            /\ l \notin found
            /\ l \notin attempted
            /\ Marker(command)[l] = start_marker[l]

\* A non-dry run has ended that found and attempted another license while a
\* license marked before the run was activated, requested and in the window.
C3_Witness ==
    /\ RunEnded
    /\ ~dry_run
    /\ attempted # {}
    /\ \E l \in Licenses :
        /\ start_marker[l] # Null
        /\ status[l] = ACTIVATED
        /\ CustomerOf(l) \in Requested
        /\ InLastWindow(l)

\* C4: send_subscription_plan_expiration_emails with N days emails a license
\* only if its plan expired at t with M - N days <= t < M, M being 00:00 of
\* the day on which the query was built, whatever the time of that day.
C4_ExpiredWindow ==
    (command = EXPIRATION_EMAILS /\ last_send.outcome = "sent") =>
        LET M == last_send.query_date * TicksPerDay
            t == ExpiresAt(last_send.license)
        IN /\ M - days * TicksPerDay <= t
           /\ t < M

\* An email went out, from a query built later than 00:00, for a plan that
\* expired at 00:00 exactly N days before the day of the query.
C4_Witness ==
    /\ command = EXPIRATION_EMAILS
    /\ last_send.outcome = "sent"
    /\ expiration_window_end # 0
    /\ now % TicksPerDay # 0
    /\ DateOf(now) = last_send.query_date
    /\ ExpiresAt(last_send.license) = (last_send.query_date - days) * TicksPerDay

C6_OnlyActivated ==
    \A l \in Licenses :
        status[l] # ACTIVATED =>
            /\ emails_sent[l] = 0
            /\ l \notin attempted
            /\ l \notin found
            /\ Marker(command)[l] = Null

\* A non-dry run has ended that emailed a license of the plan of a license
\* that is not activated, requested and inside the window.
C6_Witness ==
    /\ RunEnded
    /\ ~dry_run
    /\ "l2" \in succeeded
    /\ status["l1"] # ACTIVATED
    /\ InLastWindow("l1")

\* C7: a license of a customer that is not among the requested UUIDs is not
\* counted, not attempted and not modified by the run.
C7_OnlyRequestedCustomers ==
    \A l \in Licenses :
        (pc # "idle" /\ CustomerOf(l) \notin Requested) =>
            /\ l \notin found
            /\ l \notin attempted
            /\ l \notin succeeded
            /\ Marker(command)[l] = start_marker[l]

\* A non-dry run for c1 alone has ended with an email sent while the license
\* of c2 was activated, unmarked and inside the window.
C7_Witness ==
    /\ RunEnded
    /\ ~dry_run
    /\ succeeded # {}
    /\ \E l \in Licenses :
        /\ CustomerOf(l) \notin Requested
        /\ status[l] = ACTIVATED
        /\ Marker(command)[l] = Null
        /\ InLastWindow(l)

\* C8: a dry run (of an argument handle() accepts; C13 is about the others)
\* calls neither Braze nor the enterprise API, changes no marker, counts 0
\* successes and 0 failures and returns without raising.
C8_DryRun ==
    (dry_run /\ pc # "idle" /\ enterprise_customer_uuids # <<>>) =>
        /\ attempt_count = 0
        /\ attempted = {}
        /\ api_calls = 0
        /\ Marker(command) = start_marker
        /\ success_count = 0 /\ failure_count = 0
        /\ total_success_count = 0 /\ total_failure_count = 0
        /\ enterprise_level_failures = 0
        /\ result \in {"none", "returned"}
        /\ pc = "done" => result = "returned"

\* A dry run that found eligible licenses has ended.
C8_Witness ==
    /\ dry_run
    /\ pc = "done"
    /\ found # {}
    /\ queries = Len(enterprise_customer_uuids)

\* C9: unless a ValueError ends the run, a failed send stops neither the
\* remaining licenses of the customer nor the remaining customers: every
\* customer gets its query and every row handed to a send loop is attempted.
C9_FailureDoesNotStopTheRun ==
    RunEnded =>
        /\ queries = Len(enterprise_customer_uuids)
        /\ attempt_count = selected_count
        /\ (~dry_run /\ failed_customers = 0) => found \subseteq attempted

\* A run for c2, c1 has ended in which the send for the license of c2 failed
\* and a license of c1 was sent and marked after it.
C9_Witness ==
    /\ RunEnded
    /\ enterprise_customer_uuids = <<"c2", "c1">>
    /\ "l3" \in attempted \ succeeded
    /\ succeeded # {}
    /\ attempted \ succeeded # {"l3"}
    /\ last_send.outcome = "sent"

\* C10: a run that gets through its customer list raises if and only if a
\* send failed or a customer could not be processed.
C10_RaisesIffFailure ==
    RunEnded => ((result = "Exception") <=> (failed_sends > 0 \/ failed_customers > 0))

\* A run of send_subscription_plan_expiration_emails has raised although no
\* send failed: the enterprise API call of one customer had raised.
C10_Witness ==
    /\ RunEnded
    /\ command = EXPIRATION_EMAILS
    /\ result = "Exception"
    /\ failed_sends = 0
    /\ failed_customers > 0
    /\ succeeded # {}

\* C11: when the enterprise API call of one customer raises something other
\* than ValueError, that step sends nothing and stamps nothing, the loop of
\* handle() moves on to the next customer, the run ends by raising, and
\* send_license_expiration_reminders counts the customer as one failure.
C11_ApiFailureStep ==
    (pc = "fetch" /\ failed_customers' = failed_customers + 1 /\ result' # "ValueError") =>
        /\ UNCHANGED <<db, sends, selected_count>>
        /\ pc' = "customer"
        /\ idx' = idx + 1
        /\ total_success_count' = total_success_count
        /\ command = REMINDERS => total_failure_count' = total_failure_count + 1

C11_ApiFailureAtEnd ==
    (RunEnded /\ failed_customers > 0) =>
        /\ result = "Exception"
        /\ queries = Len(enterprise_customer_uuids)
        /\ command = REMINDERS => total_failure_count = failed_sends + failed_customers

C11_EnterpriseApiFailure == [][C11_ApiFailureStep]_vars /\ []C11_ApiFailureAtEnd

\* A run for c2, c1 has ended by raising: the enterprise API call for c2
\* had raised, its license is unmarked, and a license of c1 was emailed.
C11_Witness ==
    /\ RunEnded
    /\ enterprise_customer_uuids = <<"c2", "c1">>
    /\ failed_customers = 1
    /\ api_calls = 2
    /\ "l3" \in found \ attempted
    /\ Marker(command)["l3"] = Null
    /\ succeeded # {}
    /\ failed_sends = 0

\* C12: with the campaign setting unset, a non-dry run delivers nothing and
\* stamps nothing; the first call of the send function ends the run with
\* ValueError, no later license or customer is processed and no failure is
\* counted for it.
C12_MissingCampaignSetting ==
    (~braze_campaign_id /\ ~dry_run /\ pc # "idle") =>
        /\ succeeded = {}
        /\ Marker(command) = start_marker
        /\ attempt_count <= 1
        /\ attempt_count = 1 =>
            /\ pc = "done"
            /\ result = "ValueError"
            /\ queries = idx
            /\ success_count = 0 /\ failure_count = 0
            /\ total_success_count = 0
            /\ total_failure_count + enterprise_level_failures = failed_customers
        /\ (pc = "done" /\ selected_count > 0) => result = "ValueError"

\* A run for c2, c1 without the setting has ended with ValueError at the
\* license of c2, while the licenses of c1 were eligible and never queried.
C12_Witness ==
    /\ ~braze_campaign_id
    /\ ~dry_run
    /\ pc = "done"
    /\ result = "ValueError"
    /\ enterprise_customer_uuids = <<"c2", "c1">>
    /\ last_send.license = "l3"
    /\ queries = 1
    /\ Query(command, "c1", expiration_window_start, expiration_window_end) # {}


\* --- the --enterprise-customer-uuid argument, as the specification words it
\* The positions of str where a token starts and where one ends: a token is
\* a maximal run of characters that are neither commas nor whitespace.
TokenStarts(str) ==
    {i \in DOMAIN str : ~IsSeparator(str[i]) /\ (i = 1 \/ IsSeparator(str[i - 1]))}
TokenEnds(str) ==
    {j \in DOMAIN str : ~IsSeparator(str[j]) /\ (j = Len(str) \/ IsSeparator(str[j + 1]))}
TokenAt(str, i) ==
    SubSeq(str, i, CHOOSE j \in TokenEnds(str) : j >= i /\ \A k \in TokenEnds(str) : k >= i => j <= k)
TokenSet(str) == {TokenAt(str, i) : i \in TokenStarts(str)}
ValidUuidTexts == {<<UuidText(c)>> : c \in Customers}
ValidArgument(str) == TokenSet(str) # {} /\ TokenSet(str) \subseteq ValidUuidTexts
\* The customers a valid argument lists, in its order.
Listed(str) ==
    LET starts == TokenStarts(str)
        order == CHOOSE f \in [1 .. Cardinality(starts) -> starts] :
                     \A i, j \in 1 .. Cardinality(starts) : i < j => f[i] < f[j]
    IN [i \in 1 .. Cardinality(starts) |-> CustomerOfText(str[order[i]])]
IsPrefix(a, b) == Len(a) <= Len(b) /\ a = SubSeq(b, 1, Len(a))
SentInAll == emails_sent["l1"] + emails_sent["l2"] + emails_sent["l3"]

\* C13: an argument with no token, or with any token that is not a valid
\* UUID, ends the command with ValueError before any work: no customer is
\* processed, no license queried or modified, no email sent.
C13_ArgumentValidatedFirst ==
    (pc # "idle" /\ ~ValidArgument(uuids_string)) =>
        /\ pc = "done" /\ result = "ValueError"
        /\ queries = 0 /\ queried = <<>> /\ found = {}
        /\ api_calls = 0
        /\ attempt_count = 0 /\ attempted = {}
        /\ SentInAll = 0
        /\ Marker(command) = NoMarkers
        /\ status = [l \in Licenses |-> ACTIVATED]

\* An invalid token after a valid one, with licenses of that customer eligible.
C13_Witness ==
    /\ pc = "done"
    /\ result = "ValueError"
    /\ uuids_string = <<"1", ",", "x">>
    /\ days = 1
    /\ ~dry_run
    /\ braze_campaign_id
    /\ Query(command, "c1", WindowStart(command, now, days), WindowEnd(command, now, days)) # {}

\* C14: valid UUIDs separated by commas, spaces or both are processed once
\* per occurrence in the listed order; a customer with no eligible licenses
\* does not stop the customers after it; the total success count is the
\* number of emails sent.
C14_ListedCustomersInOrder ==
    (pc # "idle" /\ ValidArgument(uuids_string)) =>
        /\ enterprise_customer_uuids = Listed(uuids_string)
        /\ IsPrefix(queried, Listed(uuids_string))
        /\ result # "ValueError" => (pc = "done" => queried = Listed(uuids_string))
        /\ (queries < Len(Listed(uuids_string)) /\ result = "ValueError") =>
               (api_calls > 0 /\ (attempt_count > 0 \/ failed_customers > 0))
        /\ RunEnded => total_success_count = SentInAll

\* Comma and space together; c2, listed first, has no eligible license and
\* both licenses of c1 were sent.
C14_Witness ==
    /\ RunEnded
    /\ uuids_string = <<"2", ",", " ", "1">>
    /\ queried = <<"c2", "c1">>
    /\ "l3" \notin found
    /\ total_success_count = 2
    /\ succeeded = {"l1", "l2"}


\* The calendar day an instant falls on: the day whose 24 hours contain it.
CalendarDay(t) ==
    CHOOSE d \in 0 .. t : d * TicksPerDay <= t /\ t < (d + 1) * TicksPerDay

\* C15: the days_since_expiration of an expiration email is the difference of
\* the calendar dates of the send and of the plan's expiration, whatever the
\* times of day of the two.
C15_SendStep ==
    (command = EXPIRATION_EMAILS /\ attempt_count' = attempt_count + 1) =>
        last_send'.trigger_days =
            CalendarDay(now) - CalendarDay(ExpiresAt(last_send'.license))
C15_CalendarDateDifference == [][C15_SendStep]_vars

\* An email sent at 00:00 for a plan that expired at the last instant of the
\* day before: less than a day has elapsed and the value is 1.
C15_Witness ==
    /\ command = EXPIRATION_EMAILS
    /\ attempt_count = 1
    /\ last_send.outcome = "sent"
    /\ now = StartNow
    /\ ExpiresAt(last_send.license) = StartNow - 1
    /\ last_send.trigger_days = 1


\* --- retire_old_licenses
\* The instant t falls on a day more than DAYS_TO_RETIRE days before the day
\* the run started on.
LongBeforeToday(t) == CalendarDay(started) - CalendarDay(t) > DAYS_TO_RETIRE
RetirementEnded == pc = "done" /\ before # <<>>
PlanLongExpired(l) == LongBeforeToday(ExpiresAt(l))
WasRevokedLongAgo(l) ==
    /\ before.status[l] = REVOKED
    /\ before.user_email[l] # Null
    /\ before.revoked_date[l] # Null
    /\ LongBeforeToday(before.revoked_date[l][1])
WasAssignedLongAgo(l) ==
    /\ before.status[l] = ASSIGNED
    /\ before.assigned_date[l] # Null
    /\ LongBeforeToday(before.assigned_date[l][1])

\* C16: after a run, every license that had a user_email and whose plan
\* expired more than DAYS_TO_RETIRE days before today has no user_email, is
\* REVOKED and has the time of the run as its revoked_date, whatever its
\* status was.
C16_ExpiredPlanLicensesRetired ==
    RetirementEnded =>
        \A l \in Licenses :
            (before.user_email[l] # Null /\ PlanLongExpired(l)) =>
                /\ user_email[l] = Null
                /\ status[l] = REVOKED
                /\ revoked_date[l] # Null
                /\ started <= revoked_date[l][1]
                /\ revoked_date[l][1] <= now

\* An activated license and an assigned one on a plan that expired 91 days
\* ago were retired, the first at a later instant than the run started at.
C16_Witness ==
    /\ RetirementEnded
    /\ runs = 1
    /\ before.status["l1"] = ACTIVATED
    /\ before.status["l2"] = ASSIGNED
    /\ expiration_date["p1"] = LongAgo
    /\ expired_licenses_for_retirement = {"l1", "l2"}
    /\ status["l1"] = REVOKED
    /\ user_email["l1"] = Null
    /\ revoked_date["l1"] = DateTime(started + 1)

\* C17 as stated: a license revoked more than 90 days ago with a user_email
\* has its PII scrubbed, is still REVOKED and has the revoked_date it had
\* before the run.
C17_RevokedDateKept ==
    RetirementEnded =>
        \A l \in Licenses :
            WasRevokedLongAgo(l) =>
                /\ user_email[l] = Null
                /\ status[l] = REVOKED
                /\ revoked_date[l] = before.revoked_date[l]

\* C17 amended: such a license has its PII scrubbed and is still REVOKED; its
\* revoked_date is the one it had before the run unless its plan expired more
\* than 90 days ago, and then it is the time of the run.
C17_RevokedDateKeptUnlessPlanExpired ==
    RetirementEnded =>
        \A l \in Licenses :
            WasRevokedLongAgo(l) =>
                /\ user_email[l] = Null
                /\ status[l] = REVOKED
                /\ ~PlanLongExpired(l) => revoked_date[l] = before.revoked_date[l]
                /\ PlanLongExpired(l) =>
                       (revoked_date[l] # Null /\ started <= revoked_date[l][1])

\* A license revoked 91 days ago on a plan that has not expired was scrubbed
\* by the loop over the revoked licenses and kept its revoked_date.
C17_Witness ==
    /\ RetirementEnded
    /\ runs = 1
    /\ WasRevokedLongAgo("l3")
    /\ expiration_date["p2"] = LaterOn
    /\ revoked_licenses_for_retirement = {"l3"}
    /\ user_email["l3"] = Null
    /\ revoked_date["l3"] = DateTime(LongAgo)

\* C18 as stated: a license ASSIGNED for more than 90 days is UNASSIGNED
\* after the run, with no user data.
C18_AssignedBackInPool ==
    RetirementEnded =>
        \A l \in Licenses :
            WasAssignedLongAgo(l) =>
                /\ status[l] = UNASSIGNED
                /\ user_email[l] = Null

\* C18 amended: such a license is UNASSIGNED with no user data after the
\* run unless it had a user_email and its plan expired more than 90 days
\* ago, and then it is REVOKED with no user_email.
C18_AssignedBackInPoolUnlessPlanExpired ==
    RetirementEnded =>
        \A l \in Licenses :
            WasAssignedLongAgo(l) =>
                /\ user_email[l] = Null
                /\ IF before.user_email[l] # Null /\ PlanLongExpired(l)
                   THEN status[l] = REVOKED
                   ELSE /\ status[l] = UNASSIGNED
                        /\ assigned_date[l] = Null
                        /\ revoked_date[l] = Null

\* A license assigned 91 days ago on a plan that expired exactly 90 days ago
\* went back to the pool.
C18_Witness ==
    /\ RetirementEnded
    /\ runs = 1
    /\ WasAssignedLongAgo("l2")
    /\ expiration_date["p1"] = NinetyDaysAgo
    /\ "l2" \in assigned_licenses_for_retirement
    /\ status["l2"] = UNASSIGNED
    /\ user_email["l2"] = Null


\* --- the provisioning-admin subscription-plan endpoints
\* C19: the list of a customer's plans holds a plan of that customer if and
\* only if the plan is active or the request says include_inactive=true, and
\* no other plan.
C19_ListedIffActiveOrIncluded ==
    response.method = "GET" =>
        /\ response.status_code = 200
        /\ \A p \in Plans :
              p \in response.results <=>
                  /\ enterprise_customer_uuid(p) = response.target
                  /\ (is_active[p] \/ response.include_inactive = "true")

\* An inactive plan is left out of a list asked with include_inactive=false.
C19_Witness ==
    /\ response.method = "GET"
    /\ response.target = "c1"
    /\ response.include_inactive = "false"
    /\ ~is_active["p1"]
    /\ response.results = {}

\* C20: a PATCH answers 200 if and only if the plan is active or the request
\* says include_inactive=true, and 404 otherwise, leaving the plan as it was;
\* a PATCH of the title that answers 200 sets the title and leaves is_active.
C20_PatchIffVisible ==
    response.method = "PATCH" =>
        LET p == response.target
            visible == response.was.is_active \/ response.include_inactive = "true"
        IN /\ response.status_code = IF visible THEN 200 ELSE 404
           /\ is_active[p] = response.was.is_active
           /\ ~visible => title[p] = response.was.title
           /\ visible => /\ title[p] = response.sent.title
                         /\ response.data.title = response.sent.title
                         /\ response.data.is_active = response.was.is_active

\* An inactive plan was renamed by a PATCH with include_inactive=true and is
\* still inactive.
C20_Witness ==
    /\ response.method = "PATCH"
    /\ response.target = "p2"
    /\ response.include_inactive = "true"
    /\ response.status_code = 200
    /\ response.was = [title |-> "Title", is_active |-> FALSE]
    /\ title["p2"] = "Updated Title"
    /\ ~is_active["p2"]


\* --- the provisioning-admin endpoints: creation and permission
HoldsPair(rows, t, a) ==
    \E i \in DOMAIN rows : rows[i].title = t /\ rows[i].customer_agreement = a
AllPairsDistinct(rows) ==
    \A i, j \in DOMAIN rows :
        (rows[i].title = rows[j].title
            /\ rows[i].customer_agreement = rows[j].customer_agreement) => i = j
IsProvisioningAdmin(requester) == requester.role = SYSTEM_ENTERPRISE_PROVISIONING_ADMIN_ROLE

\* C21: a create whose title and customer_agreement are those of an existing
\* plan answers 400 and creates no plan, so no two plans ever share the pair.
C21_CreateStep ==
    response'.method = "POST" =>
        /\ (IsProvisioningAdmin(response'.requester)
              /\ HoldsPair(subscription_plans, response'.title, response'.customer_agreement)) =>
                 (response'.status_code = 400 /\ subscription_plans' = subscription_plans)
        /\ AllPairsDistinct(subscription_plans) => AllPairsDistinct(subscription_plans')
C21_UniqueTitlePerAgreement ==
    [][C21_CreateStep]_vars /\ []AllPairsDistinct(subscription_plans)

\* The same payload was sent twice: one plan, and the second answer is 400.
C21_Witness ==
    /\ response.method = "POST"
    /\ response.status_code = 400
    /\ response.title = "foo"
    /\ response.customer_agreement = "a1"
    /\ subscription_plans = <<[title |-> "foo", customer_agreement |-> "a1"]>>

\* C22: a requester without the provisioning-admin role, staff or not, with
\* another role or none, assigned through the JWT or the database, gets 403
\* from create, list and update and no plan is created or changed; a
\* non-staff requester with the role gets 201 from a create of a new pair and
\* 200 from list and from an update of an existing plan.
C22_RequestStep ==
    response'.method # "none" =>
        /\ ~IsProvisioningAdmin(response'.requester) =>
               (response'.status_code = 403 /\ subscription_plans' = subscription_plans)
        /\ (IsProvisioningAdmin(response'.requester) /\ ~response'.requester.is_staff) =>
               /\ response'.status_code # 403
               /\ (response'.method = "POST"
                     /\ ~HoldsPair(subscription_plans, response'.title,
                                   response'.customer_agreement)) =>
                        (response'.status_code = 201
                           /\ HoldsPair(subscription_plans', response'.title,
                                        response'.customer_agreement))
               /\ response'.method = "GET" => response'.status_code = 200
               /\ (response'.method = "PATCH" /\ response'.row \in DOMAIN subscription_plans
                     /\ ~HoldsPair(subscription_plans, response'.title,
                            subscription_plans[response'.row].customer_agreement)) =>
                        (response'.status_code = 200
                           /\ subscription_plans'[response'.row].title = response'.title)
C22_AuthorisedOnly == [][C22_RequestStep]_vars

\* A staff user holding another enterprise role through the database was
\* refused the update of an existing plan.
C22_Witness ==
    /\ response.method = "PATCH"
    /\ response.requester = [is_staff |-> TRUE, role |-> "enterprise_admin",
                             assign_via_jwt |-> FALSE]
    /\ response.status_code = 403
    /\ response.row = 1
    /\ response.title = "bar"
    /\ subscription_plans = <<[title |-> "foo", customer_agreement |-> "a1"]>>


\* --- BrazeApiClient
IsSet(value) == value \notin {Undefined, None, ""}

\* C23: BrazeApiClient() raises a ValueError that names a missing setting
\* whenever BRAZE_API_KEY, BRAZE_API_URL or BRAZE_APP_ID is undefined, None
\* or '', and BrazeClient.__init__ is then not called; with all three set,
\* BrazeClient.__init__ is called exactly once, with exactly the three values.
C23_ConstructStep ==
    clients' = clients + 1 =>
        IF \E name \in RequiredSettings : ~IsSet(settings[name])
        THEN /\ raised' # Null
             /\ raised'[1] = "ValueError"
             /\ raised'[2] \in RequiredSettings
             /\ ~IsSet(settings[raised'[2]])
             /\ init_calls' = init_calls
        ELSE /\ raised' = Null
             /\ Len(init_calls') = Len(init_calls) + 1
             /\ SubSeq(init_calls', 1, Len(init_calls)) = init_calls
             /\ init_calls'[Len(init_calls')] =
                    [api_key |-> settings["BRAZE_API_KEY"],
                     api_url |-> settings["BRAZE_API_URL"],
                     app_id |-> settings["BRAZE_APP_ID"]]
C23_MissingSettingRaises == [][C23_ConstructStep]_vars

\* The API key is '' and the app id undefined: the key was named and
\* BrazeClient.__init__ was not called.
C23_Witness ==
    /\ clients = 1
    /\ settings["BRAZE_API_KEY"] = ""
    /\ settings["BRAZE_API_URL"] = "test-value"
    /\ settings["BRAZE_APP_ID"] = Undefined
    /\ raised = <<"ValueError", "BRAZE_API_KEY">>
    /\ init_calls = <<>>


\* --- overlapping runs
\* C24: when two runs of one email command for one customer overlap, no
\* license is sent the command's email by both runs.
C24_NoDuplicateAcrossRuns ==
    run_pc # <<>> => \A l \in Licenses : ~(l \in run_sent[1] /\ l \in run_sent[2])


\* --- the cron keeps running
EmailedBySomeRun(l) == \E r \in CronRuns : l \in run_sent[r]
\* License l is ACTIVATED, of the runs' customer, and its plan's expiration
\* date is inside the command's window at time t.
InWindowAt(l, t) ==
    /\ status[l] = ACTIVATED
    /\ enterprise_customer_uuid(subscription_plan(l)) = run_customer
    /\ expiration_date[subscription_plan(l)] >= WindowStart(command, t, run_days)
    /\ expiration_date[subscription_plan(l)] < WindowEnd(command, t, run_days)
EmailedAndMarked(l) == EmailedBySomeRun(l) /\ Marker(command)[l] # Null

\* C25: a license whose send failed, and that no run has emailed since, is
\* selected again by every later run that starts while it is ACTIVATED and
\* inside the window; with the cron running for ever and sends succeeding at
\* some time, it is in the end emailed and marked, or has left the window.
C25_SelectStep ==
    \A r \in CronRuns :
        (run_pc[r] = "start" /\ run_pc'[r] = "loop") =>
            \A l \in run_failed :
                (~EmailedBySomeRun(l) /\ InWindowAt(l, now)) => l \in run_licenses'[r]
C25_FailedSendRetried ==
    /\ [][C25_SelectStep]_vars
    /\ \A l \in Licenses :
          (l \in run_failed) ~> (EmailedAndMarked(l) \/ ~InWindowAt(l, now))

\* The send to l1 failed in a run that has ended, and a later run of the same
\* process emailed and marked it.
C25_Witness ==
    /\ run_pc # <<>>
    /\ "l1" \in run_failed
    /\ "l1" \in run_sent[1]
    /\ "l1" \notin run_sent[2]
    /\ run_pc[2] = "start"
    /\ Marker(command)["l1"] # Null


\* --- days_until_expiration
\* A step of the send loop of send_license_expiration_reminders that sent the
\* email.
ReminderSent == 
    /\ command = REMINDERS
    /\ attempt_count' = attempt_count + 1
    /\ last_send'.outcome = "sent"

\* C26 as stated: every reminder email sent by a run with N days carries a
\* days_until_expiration of N - 1 or N.
C26_SendStep ==
    ReminderSent => last_send'.trigger_days \in {days - 1, days}
C26_DaysUntilExpiration == [][C26_SendStep]_vars

\* C26, amended: every reminder email that a run with N days sends on the
\* calendar day on which it selected the license carries a
\* days_until_expiration of N - 1 or N.
C26_SameDaySendStep ==
    (ReminderSent /\ CalendarDay(now) = last_send'.query_date) =>
        last_send'.trigger_days \in {days - 1, days}
C26_DaysUntilExpirationSameDay == [][C26_SameDaySendStep]_vars

\* A reminder sent in the second half of the day of the query for a plan
\* that expires at 00:00 of the target day: the value is N - 1.
C26_Witness ==
    /\ command = REMINDERS
    /\ pc = "loop"
    /\ last_send # NoSend
    /\ last_send.outcome = "sent"
    /\ last_send.query_date = CalendarDay(now)
    /\ now > Midnight(now)
    /\ ExpiresAt(last_send.license) = Midnight(now) + timedelta(days)
    /\ last_send.trigger_days = days - 1


\* --- the counts of one customer
\* _process_enterprise_customer returns from its send loop.
ReturnsFromLoop == pc = "loop" /\ pc' = "customer"
ProcessedCustomer == enterprise_customer_uuids[idx]
MarkerSetSince(marker) ==
    {l \in Licenses : /\ CustomerOf(l) = ProcessedCustomer
                      /\ marker[l] = Null
                      /\ Marker(command)[l] # Null}

\* C27 as stated: when a non-dry run has processed a customer to completion,
\* success_count + failure_count is the number of licenses selected for the
\* customer, success_count is the number of licenses whose marker the run
\* set, and every selected license was attempted exactly once in the run.
C27_ReturnStep ==
    ReturnsFromLoop =>
        /\ success_count + failure_count = Cardinality(loop_start.licenses)
        /\ success_count = Cardinality(MarkerSetSince(start_marker))
        /\ \A l \in loop_start.licenses : tries[l] = 1
C27_CountsPerCustomer == [][C27_ReturnStep]_vars

\* C27, amended: the counts are those of one processing of the customer.
\* success_count + failure_count is the number of licenses it selected,
\* success_count the number of licenses whose marker it set, and it
\* attempted every selected license exactly once and no other license.
C27_ProcessingReturnStep ==
    ReturnsFromLoop =>
        /\ success_count + failure_count = Cardinality(loop_start.licenses)
        /\ success_count = Cardinality(MarkerSetSince(loop_start.marker))
        /\ \A l \in Licenses :
              tries[l] = loop_start.tries[l] + (IF l \in loop_start.licenses THEN 1 ELSE 0)
C27_CountsPerProcessing == [][C27_ProcessingReturnStep]_vars

\* c1 is listed twice: the send to l1 failed in the first processing and
\* succeeded in the second, which selected l1 alone; l2 was sent in the first.
C27_Witness ==
    /\ pc = "customer"
    /\ ~dry_run
    /\ enterprise_customer_uuids = <<"c1", "c1">>
    /\ idx = 3
    /\ loop_start.licenses = {"l1"}
    /\ tries = [l \in Licenses |-> IF l = "l1" THEN 2 ELSE IF l = "l2" THEN 1 ELSE 0]
    /\ success_count = 1
    /\ failure_count = 0
    /\ total_success_count = 2


\* --- retire_old_licenses: the three loops together
HadEmailOnLongExpiredPlan(l) == before.user_email[l] # Null /\ PlanLongExpired(l)
Unchanged(l) ==
    /\ status[l] = before.status[l]
    /\ user_email[l] = before.user_email[l]
    /\ revoked_date[l] = before.revoked_date[l]
    /\ assigned_date[l] = before.assigned_date[l]

\* C28: in one run no license is selected by two of the three loops, and
\* the earlier loop wins: a license with a user_email on a plan that expired
\* more than 90 days ago that was also ASSIGNED or REVOKED for more than 90
\* days is selected by the first loop only and ends REVOKED with the time of
\* the run as its revoked_date.
C28_EarlierPhaseWins ==
    before # <<>> =>
        /\ expired_licenses_for_retirement \cap revoked_licenses_for_retirement = {}
        /\ expired_licenses_for_retirement \cap assigned_licenses_for_retirement = {}
        /\ revoked_licenses_for_retirement \cap assigned_licenses_for_retirement = {}
        /\ RetirementEnded =>
              \A l \in Licenses :
                  (HadEmailOnLongExpiredPlan(l)
                      /\ (WasAssignedLongAgo(l) \/ WasRevokedLongAgo(l))) =>
                          /\ l \in expired_licenses_for_retirement
                          /\ l \notin revoked_licenses_for_retirement
                          /\ l \notin assigned_licenses_for_retirement
                          /\ status[l] = REVOKED
                          /\ revoked_date[l] # Null
                          /\ revoked_date[l][1] >= started

\* The plan of l1 and l2 expired 91 days ago; l1 was revoked and l2 assigned
\* 91 days ago, both with an email: the first loop took both.
C28_Witness ==
    /\ RetirementEnded
    /\ runs = 1
    /\ PlanLongExpired("l1")
    /\ WasRevokedLongAgo("l1")
    /\ WasAssignedLongAgo("l2")
    /\ before.user_email["l2"] # Null
    /\ {"l1", "l2"} \subseteq expired_licenses_for_retirement
    /\ status["l2"] = REVOKED

\* C29: a second run on the same day, right after a run, selects no license
\* in any of its loops and changes no license.
C29_SecondRunIdle ==
    (runs > 1 /\ before # <<>>) =>
        /\ expired_licenses_for_retirement = {}
        /\ revoked_licenses_for_retirement = {}
        /\ assigned_licenses_for_retirement = {}
        /\ \A l \in Licenses : Unchanged(l)

\* The second run has ended; the first had revoked l3 for its expired plan,
\* scrubbed the long revoked l1 and put l2 back into the pool.
C29_Witness ==
    /\ RetirementEnded
    /\ runs = 2
    /\ status["l3"] = REVOKED
    /\ revoked_date["l3"] # Null
    /\ revoked_date["l3"][1] >= RetireNow
    /\ status["l2"] = UNASSIGNED
    /\ status["l1"] = REVOKED
    /\ revoked_date["l1"] = DateTime(LongAgo)
    /\ user_email["l1"] = Null

\* C30: a run leaves as it was every license that, when the run started,
\* neither had a user_email on a plan expired for more than 90 days, nor was
\* REVOKED with a user_email and a revoked_date more than 90 days old, nor
\* was ASSIGNED with an assigned_date more than 90 days old; a date of
\* exactly 90 days ago is not more than 90 days old.
C30_OthersUntouched ==
    RetirementEnded =>
        \A l \in Licenses :
            (~HadEmailOnLongExpiredPlan(l) /\ ~WasRevokedLongAgo(l) /\ ~WasAssignedLongAgo(l)) =>
                Unchanged(l)

\* l1 was revoked exactly 90 days ago, on a plan that expired exactly 90
\* days ago, and still has its email; l2 went back into the pool.
C30_Witness ==
    /\ RetirementEnded
    /\ runs = 1
    /\ before.status["l1"] = REVOKED
    /\ before.revoked_date["l1"] = DateTime(NinetyDaysAgo)
    /\ expiration_date["p1"] = NinetyDaysAgo
    /\ user_email["l1"] = Email
    /\ revoked_date["l1"] = DateTime(NinetyDaysAgo)
    /\ before.status["l2"] = ASSIGNED
    /\ status["l2"] = UNASSIGNED

====
